---- MODULE Spec2Model ----
(***************************************************************************)
(* MachineLearningRepository                                               *)
(* (server/src/repositories/machine-learning.repository.ts).               *)
(*                                                                         *)
(* A call of predict() is a process whose position is pc[c]; every await   *)
(* of the source is the boundary between two actions.  Strings that the    *)
(* code takes apart (the server list) are sequences of one-character       *)
(* strings; template strings are records holding the template and the      *)
(* values interpolated into it.                                            *)
(***************************************************************************)
EXTENDS Integers, Sequences, FiniteSets, TLC

(* ---------------------------------------------------------------- bounds *)

\* longest server-list string handed to predict()
MaxLen == 4

\* longest server-list string in the runs that check termination
MaxFairLen == 3

(* ---------------------------------------------------------- value domains *)

\* "a": a character of a host name, "/": path separator, ";": list
\* separator, " ": white space
Chars == {"a", "/", ";", " "}

StringsUpTo(m) == UNION {[1..n -> Chars] : n \in 0..m}

Strings == StringsUpTo(MaxLen)

CallIds == {1, 2}

\* ModelPayload values: objects with any subset of the keys imagePath, text
Payloads ==
    { [k \in {} |-> <<>>],
      [k \in {"imagePath"} |-> <<"/img.jpg">>],
      [k \in {"text"} |-> <<"hello">>],
      [k \in {"imagePath", "text"} |->
            IF k = "imagePath" THEN <<"/img.jpg">> ELSE <<"hello">>] }

\* ModelTask and ModelType (src/interfaces/machine-learning.interface)
SEARCH == "search"
FACIAL_RECOGNITION == "facial_recognition"
DETECTION == "detection"
RECOGNITION == "recognition"
VISUAL == "visual"
TEXTUAL == "textual"

ModelNames == {"m1", "m2"}
MinScores == {"0.7"}
ImagePaths == {<<"/img.jpg">>}
Texts == {<<"hello">>}

\* MachineLearningRequest values: task -> type -> { modelName }
Configs ==
    { [task |-> "clip", type |-> "textual", modelName |-> "m1"],
      [task |-> "clip", type |-> "textual", modelName |-> "m2"] }

\* what a liveness probe can answer with, once the request went through
ProbeStatuses == {200, 204, 500}

\* what the POST can answer with
PostStatuses == {200, 399, 400, 500}
StatusTexts == {"OK", "Bad"}
Bodies ==
    { <<"{">>,
      <<"{", "search", ":", "e1", "}">>,
      <<"{", "imageHeight", ":", "100", ",", "imageWidth", ":", "200", ",",
        "facial_recognition", ":", "f1", "}">> }
Responses ==
    [status : PostStatuses, statusText : StatusTexts, body : Bodies]

\* rejections of fetch(): an Error with a cause, or one without
ProbeErrors == { [message |-> "fetch failed", cause |-> "ECONNREFUSED"] }
PostErrors ==
    { [message |-> "fetch failed", cause |-> "ETIMEDOUT"],
      [message |-> "aborted", cause |-> ""] }

FileBytes == <<"bytes">>
FileError == [tmpl |-> "ENOENT"]

(* -------------------------------------------------------- pure functions *)

errorPrefix == "Machine learning request"

\* String.prototype.split(';')
RECURSIVE split(_)
split(s) ==
    IF \A i \in 1..Len(s) : s[i] # ";"
    THEN <<s>>
    ELSE LET k == CHOOSE i \in 1..Len(s) :
                    s[i] = ";" /\ \A j \in 1..(i - 1) : s[j] # ";"
         IN  <<SubSeq(s, 1, k - 1)>> \o split(SubSeq(s, k + 1, Len(s)))

\* String.prototype.trim()
RECURSIVE trim(_)
trim(s) ==
    IF s = <<>> THEN s
    ELSE IF s[1] = " " THEN trim(Tail(s))
    ELSE IF s[Len(s)] = " " THEN trim(SubSeq(s, 1, Len(s) - 1))
    ELSE s

\* url.split(';').map((item) => item.trim())
Paths(u) == [i \in 1..Len(split(u)) |-> trim(split(u)[i])]

\* fetch(path) rejects with a TypeError unless path parses as an absolute
\* URL: here, unless it starts with a host
ValidURL(path) == path # <<>> /\ path[1] = "a"

\* the origin (scheme and authority) of an absolute URL: what precedes its path
RECURSIVE Origin(_)
Origin(path) ==
    IF path = <<>> \/ path[1] = "/" THEN <<>>
    ELSE <<path[1]>> \o Origin(Tail(path))

\* new URL('/predict', workingurl): an absolute path replaces the base's path
PredictURL(workingurl) == Origin(workingurl) \o <<"/predict">>

\* JSON.stringify(config)
JSONstringify(cfg) ==
    IF "minScore" \in DOMAIN cfg
    THEN <<"{", cfg.task, ":{", cfg.type, ":{modelName:", cfg.modelName,
           ",options:{minScore:", cfg.minScore, "}},", cfg.type2,
           ":{modelName:", cfg.modelName, "}}}">>
    ELSE <<"{", cfg.task, ":{", cfg.type, ":{modelName:", cfg.modelName, "}}}">>

\* Response.json(): the body decoded, or a SyntaxError
JSONparse(body) ==
    LET n == (Len(body) - 1) \div 4
    IN  IF /\ n >= 1 /\ Len(body) = 4 * n + 1
           /\ body[1] = "{" /\ body[Len(body)] = "}"
           /\ \A i \in 1..n : body[4 * i - 1] = ":"
           /\ \A i \in 1..(n - 1) : body[4 * i + 1] = ","
        THEN [ok |-> TRUE,
              value |-> [k \in {body[4 * i - 2] : i \in 1..n} |->
                            body[4 * (CHOOSE i \in 1..n : body[4 * i - 2] = k)]]]
        ELSE [ok |-> FALSE]

\* response[key]: undefined when the decoded object has no such key
Get(response, key) ==
    IF key \in DOMAIN response THEN response[key] ELSE "undefined"

\* detectFaces: the request it builds and the object it returns
DetectFacesRequest(modelName, minScore) ==
    [task |-> FACIAL_RECOGNITION, type |-> DETECTION, modelName |-> modelName,
     minScore |-> minScore, type2 |-> RECOGNITION]

\* variant of DetectFacesResult: height and width exchanged
DetectFacesResultSwapped(response) ==
    [imageHeight |-> Get(response, "imageWidth"),
     imageWidth |-> Get(response, "imageHeight"),
     faces |-> Get(response, FACIAL_RECOGNITION)]

DetectFacesResult(response) ==
    [imageHeight |-> Get(response, "imageHeight"),
     imageWidth |-> Get(response, "imageWidth"),
     faces |-> Get(response, FACIAL_RECOGNITION)]

\* encodeImage and encodeText: the requests they build, the value they return
EncodeImageRequest(modelName) ==
    [task |-> SEARCH, type |-> VISUAL, modelName |-> modelName]

EncodeTextRequest(modelName) ==
    [task |-> SEARCH, type |-> TEXTUAL, modelName |-> modelName]

EncodeResult(response) == Get(response, SEARCH)

\* the calls of predict: by one of the three operations, or with any
\* payload and request
Invocations ==
    {[op |-> "predict", payload |-> p, config |-> cfg] :
        p \in Payloads, cfg \in Configs}
    \cup {[op |-> "detectFaces", payload |-> [k \in {"imagePath"} |-> i],
           config |-> DetectFacesRequest(m, ms)] :
        i \in ImagePaths, m \in ModelNames, ms \in MinScores}
    \cup {[op |-> "encodeImage", payload |-> [k \in {"imagePath"} |-> i],
           config |-> EncodeImageRequest(m)] :
        i \in ImagePaths, m \in ModelNames}
    \cup {[op |-> "encodeText", payload |-> [k \in {"text"} |-> t],
           config |-> EncodeTextRequest(m)] :
        t \in Texts, m \in ModelNames}

NotCalled == [op |-> "predict", payload |-> [k \in {} |-> <<>>],
              config |-> EncodeTextRequest("m1")]

\* error?.cause || error
CauseOf(error) == IF error.cause # "" THEN error.cause ELSE error.message

\* variant of IsWorking: any 2xx status counts (response.ok)
IsWorkingAnyOk(r) == r.status >= 200 /\ r.status < 300

\* r.status == 200
IsWorking(r) == r.status = 200

\* the catch handler's return value { status: 0, text: 'nop' }
NopResponse == [status |-> 0, text |-> "nop"]

\* variant of LastPath: the loop stops one element early
LastPathOffByOne(ps, i) == i >= Len(ps) - 1

\* the for-of loop has no further element after position i
LastPath(ps, i) == i = Len(ps)

\* variant of IsRejected: res.status > 400
IsRejectedAbove400(r) == r.status > 400

\* variant of IsRejected: everything but a 2xx status is rejected (!res.ok)
IsRejectedNotOk(r) == r.status >= 300

\* res.status >= 400
IsRejected(r) == r.status >= 400

\* 'imagePath' in payload
HasImagePath(p) == "imagePath" \in DOMAIN p

\* variant of HasText: a plain else in place of the else-if
HasTextAlways(p) == TRUE

\* 'text' in payload
HasText(p) == "text" \in DOMAIN p

(* ------------------------------------------------- errors and log lines *)

\* variant of NoServerError: the message interpolates the server list
NoServerErrorNamingList(u) ==
    [tmpl |-> "${errorPrefix}: no machine learning server found.",
     prefix |-> errorPrefix, url |-> u]

\* throw new Error(`${errorPrefix}: no machine learning server found.`)
NoServerError(u) ==
    [tmpl |-> "${errorPrefix}: no machine learning server found.",
     prefix |-> errorPrefix]

\* variant of DispatchError: the message interpolates url, not workingurl
DispatchErrorNamingList(u, workingurl, error) ==
    [tmpl |-> "${errorPrefix} to \"${workingurl}\" failed with ${cause}",
     prefix |-> errorPrefix, address |-> u, cause |-> CauseOf(error)]

\* new Error(`${errorPrefix} to "${workingurl}" failed with ${error?.cause || error}`)
DispatchError(u, workingurl, error) ==
    [tmpl |-> "${errorPrefix} to \"${workingurl}\" failed with ${cause}",
     prefix |-> errorPrefix, address |-> workingurl, cause |-> CauseOf(error)]

\* new Error(`${errorPrefix} '${JSON.stringify(config)}' failed with status ${res.status}: ${res.statusText}`)
RejectedError(cfg, r) ==
    [tmpl |-> "${errorPrefix} '${config}' failed with status ${status}: ${statusText}",
     prefix |-> errorPrefix, config |-> JSONstringify(cfg),
     status |-> r.status, statusText |-> r.statusText]

\* new Error('Invalid input')
InvalidInputError == [tmpl |-> "Invalid input"]

\* the SyntaxError of Response.json()
DecodeError == [tmpl |-> "SyntaxError"]

\* this.logger.warn(`${errorPrefix} ping to "${path}" failed with ${error?.cause || error}`)
PingWarning(path, error) ==
    [level |-> "warn", tmpl |-> "${errorPrefix} ping to \"${path}\" failed with ${cause}",
     path |-> path, cause |-> CauseOf(error)]

\* this.logger.debug(`Response from ${path}`)
ResponseDebug(path) ==
    [level |-> "debug", tmpl |-> "Response from ${path}", path |-> path]

\* this.logger.debug(`Predicting with ${url.split(';')}`)
PredictingDebug(u) ==
    [level |-> "debug", tmpl |-> "Predicting with ${paths}", paths |-> split(u)]

(* ------------------------------------------------------------------ state *)

VARIABLES
    operation,  \* operation[c]: the operation that called predict ("predict": none)
    ret,        \* ret[c]: what the operation's promise settled with
    url,        \* url[c]: the server list predict() was called with
    payload,    \* payload[c]: its ModelPayload
    config,     \* config[c]: its MachineLearningRequest
    pc,         \* pc[c]: where call c stands
    formData,   \* formData[c]: the fields appended so far, in order
    paths,      \* paths[c]: find_working_server's local `paths`
    idx,        \* idx[c]: position of the for-of loop in paths[c]
    statuses,   \* statuses[c]: r.status of every finished loop iteration
    workingurl, \* workingurl[c]: predict's local `workingurl`
    res,        \* res[c]: predict's local `res`
    result,     \* result[c]: what the call's promise settled with
    io,         \* every file read, request and body decode started, in order
    log         \* the lines given to this.logger, in order

vars == <<operation, ret, url, payload, config, pc, formData, paths, idx, statuses,
          workingurl, res, result, io, log>>

NoResponse == [status |-> 0, statusText |-> "", body |-> <<>>]
Pending == [kind |-> "pending"]

\* the I/O operations of call c, in the order they were started
IoOf(c) == SelectSeq(io, LAMBDA e : e.call = c)
Gets(c) == SelectSeq(IoOf(c), LAMBDA e : e.op = "GET")
Posts(c) == SelectSeq(IoOf(c), LAMBDA e : e.op = "POST")

\* call 1 is made, with a server list from S; call 2 is not made
InitFrom(S) ==
    /\ \E u \in S, i \in Invocations :
          /\ url = [c \in CallIds |-> IF c = 1 THEN u ELSE <<>>]
          /\ operation = [c \in CallIds |-> IF c = 1 THEN i.op ELSE NotCalled.op]
          /\ payload = [c \in CallIds |-> IF c = 1 THEN i.payload ELSE NotCalled.payload]
          /\ config = [c \in CallIds |-> IF c = 1 THEN i.config ELSE NotCalled.config]
    /\ ret = [c \in CallIds |-> [kind |-> "pending"]]
    /\ pc = [c \in CallIds |-> IF c = 1 THEN "start" ELSE "idle"]
    /\ formData = [c \in CallIds |-> <<>>]
    /\ paths = [c \in CallIds |-> <<>>]
    /\ idx = [c \in CallIds |-> 0]
    /\ statuses = [c \in CallIds |-> <<>>]
    /\ workingurl = [c \in CallIds |-> <<>>]
    /\ res = [c \in CallIds |-> NoResponse]
    /\ result = [c \in CallIds |-> Pending]
    /\ io = <<>>
    /\ log = <<>>

Init == InitFrom(Strings)

FairInit == InitFrom(StringsUpTo(MaxFairLen))

(* ---------------------------------------------------------------- actions *)

IoEvent(c, op, target, body) ==
    [call |-> c, op |-> op, target |-> target, body |-> body]

\* the call's promise rejects with e
Throw(c, e) ==
    /\ pc' = [pc EXCEPT ![c] = "thrown"]
    /\ result' = [result EXCEPT ![c] = [kind |-> "error", error |-> e]]

\* getFormData up to its first await, or to its end when it has none
GetFormData(c) ==
    /\ pc[c] = "start"
    /\ LET entries == <<[name |-> "entries", value |-> JSONstringify(config[c])]>>
       IN  IF HasImagePath(payload[c])
           THEN /\ formData' = [formData EXCEPT ![c] = entries]
                /\ io' = Append(io, IoEvent(c, "readFile", payload[c]["imagePath"], <<>>))
                /\ pc' = [pc EXCEPT ![c] = "readFile"]
                /\ UNCHANGED result
           ELSE IF HasText(payload[c])
           THEN /\ formData' = [formData EXCEPT ![c] =
                        Append(entries, [name |-> "text", value |->
                            IF "text" \in DOMAIN payload[c]
                            THEN payload[c]["text"] ELSE <<"undefined">>])]
                /\ pc' = [pc EXCEPT ![c] = "formReady"]
                /\ UNCHANGED <<io, result>>
           ELSE /\ Throw(c, InvalidInputError)
                /\ UNCHANGED <<formData, io>>
    /\ UNCHANGED <<operation, ret, url, payload, config, paths, idx, statuses, workingurl, res, log>>

\* variant of ReadFileDone: the branches of getFormData are two ifs, not an
\* if and an else-if, so that a text is appended after the image
ReadFileDoneAlsoText(c) ==
    /\ pc[c] = "readFile"
    /\ formData' = [formData EXCEPT ![c] =
            Append(@, [name |-> "image", value |-> FileBytes])
            \o (IF "text" \in DOMAIN payload[c]
                THEN <<[name |-> "text", value |-> payload[c]["text"]]>>
                ELSE <<>>)]
    /\ pc' = [pc EXCEPT ![c] = "formReady"]
    /\ UNCHANGED <<operation, ret, url, payload, config, paths, idx, statuses, workingurl, res,
                   result, io, log>>

\* readFile resolves: the image field is appended and getFormData returns
ReadFileDone(c) ==
    /\ pc[c] = "readFile"
    /\ formData' = [formData EXCEPT ![c] =
            Append(@, [name |-> "image", value |-> FileBytes])]
    /\ pc' = [pc EXCEPT ![c] = "formReady"]
    /\ UNCHANGED <<operation, ret, url, payload, config, paths, idx, statuses, workingurl, res,
                   result, io, log>>

\* variant of ReadFileFails: the rejection is swallowed and predict goes on
ReadFileFailsSwallowed(c) ==
    /\ pc[c] = "readFile"
    /\ pc' = [pc EXCEPT ![c] = "formReady"]
    /\ UNCHANGED <<operation, ret, url, payload, config, formData, paths, idx, statuses,
                   workingurl, res, result, io, log>>

\* readFile rejects: nothing catches it
ReadFileFails(c) ==
    /\ pc[c] = "readFile"
    /\ Throw(c, FileError)
    /\ UNCHANGED <<operation, ret, url, payload, config, formData, paths, idx, statuses,
                   workingurl, res, io, log>>

\* variant of StartScan: every candidate is fetched before the first await
StartScanParallel(c) ==
    /\ pc[c] = "formReady"
    /\ log' = Append(log, PredictingDebug(url[c]))
    /\ paths' = [paths EXCEPT ![c] = Paths(url[c])]
    /\ idx' = [idx EXCEPT ![c] = 1]
    /\ io' = io \o [k \in 1..Len(Paths(url[c])) |->
                        [call |-> c, op |-> "GET", target |-> Paths(url[c])[k], body |-> <<>>]]
    /\ pc' = [pc EXCEPT ![c] = "probing"]
    /\ UNCHANGED <<operation, ret, url, payload, config, formData, statuses, workingurl, res, result>>

\* variant of StartScan: the address another call resolved is kept by the
\* repository and taken without a probe
StartScanCached(c) ==
    /\ pc[c] = "formReady"
    /\ log' = Append(log, PredictingDebug(url[c]))
    /\ paths' = [paths EXCEPT ![c] = Paths(url[c])]
    /\ IF \E d \in CallIds \ {c} : workingurl[d] # <<>>
       THEN /\ workingurl' = [workingurl EXCEPT ![c] =
                    workingurl[CHOOSE d \in CallIds \ {c} : workingurl[d] # <<>>]]
            /\ pc' = [pc EXCEPT ![c] = "resolved"]
            /\ UNCHANGED <<idx, io>>
       ELSE /\ idx' = [idx EXCEPT ![c] = 1]
            /\ io' = Append(io, IoEvent(c, "GET", Paths(url[c])[1], <<>>))
            /\ pc' = [pc EXCEPT ![c] = "probing"]
            /\ UNCHANGED workingurl
    /\ UNCHANGED <<operation, ret, url, payload, config, formData, statuses, res, result>>

\* predict after `await this.getFormData`, then find_working_server up to
\* the fetch of its first loop iteration
StartScan(c) ==
    /\ pc[c] = "formReady"
    /\ log' = Append(log, PredictingDebug(url[c]))
    /\ paths' = [paths EXCEPT ![c] = Paths(url[c])]
    /\ idx' = [idx EXCEPT ![c] = 1]
    /\ io' = Append(io, IoEvent(c, "GET", Paths(url[c])[1], <<>>))
    /\ pc' = [pc EXCEPT ![c] = "probing"]
    /\ UNCHANGED <<operation, ret, url, payload, config, formData, statuses, workingurl, res, result>>

\* variant of AfterProbe: after the last candidate the scan starts over
AfterProbeStartOver(c, r, lg) ==
    LET path == paths[c][idx[c]]
        next == IF idx[c] = Len(paths[c]) THEN 1 ELSE idx[c] + 1
    IN  /\ statuses' = [statuses EXCEPT ![c] = Append(@, r.status)]
        /\ IF IsWorking(r)
           THEN /\ log' = Append(lg, ResponseDebug(path))
                /\ workingurl' = [workingurl EXCEPT ![c] = path]
                /\ pc' = [pc EXCEPT ![c] = "resolved"]
                /\ UNCHANGED <<idx, io, result>>
           ELSE /\ log' = lg
                /\ idx' = [idx EXCEPT ![c] = next]
                /\ io' = Append(io, [call |-> c, op |-> "GET", target |-> paths[c][next], body |-> <<>>])
                /\ UNCHANGED <<pc, workingurl, result>>
        /\ UNCHANGED <<operation, ret, url, payload, config, formData, paths, res>>

\* variant of AfterProbe: a candidate answering 500 is probed a second time,
\* once per scan
AfterProbeRetryOnce(c, r, lg) ==
    LET path == paths[c][idx[c]]
    IN  /\ statuses' = [statuses EXCEPT ![c] = Append(@, r.status)]
        /\ IF IsWorking(r)
           THEN /\ log' = Append(lg, ResponseDebug(path))
                /\ workingurl' = [workingurl EXCEPT ![c] = path]
                /\ pc' = [pc EXCEPT ![c] = "resolved"]
                /\ UNCHANGED <<idx, io, result>>
           ELSE IF r.status = 500 /\ Len(statuses[c]) + 1 = idx[c]
           THEN /\ log' = lg
                /\ io' = Append(io, [call |-> c, op |-> "GET", target |-> path, body |-> <<>>])
                /\ UNCHANGED <<idx, pc, workingurl, result>>
           ELSE IF LastPath(paths[c], idx[c])
           THEN /\ log' = lg
                /\ Throw(c, NoServerError(url[c]))
                /\ UNCHANGED <<idx, io, workingurl>>
           ELSE /\ log' = lg
                /\ idx' = [idx EXCEPT ![c] = @ + 1]
                /\ io' = Append(io, [call |-> c, op |-> "GET", target |-> paths[c][idx[c] + 1], body |-> <<>>])
                /\ UNCHANGED <<pc, workingurl, result>>
        /\ UNCHANGED <<operation, ret, url, payload, config, formData, paths, res>>

\* the loop body after `await fetch(...).catch(...)` gave r, the log being lg
AfterProbe(c, r, lg) ==
    LET path == paths[c][idx[c]]
    IN  /\ statuses' = [statuses EXCEPT ![c] = Append(@, r.status)]
        /\ IF IsWorking(r)
           THEN /\ log' = Append(lg, ResponseDebug(path))
                /\ workingurl' = [workingurl EXCEPT ![c] = path]
                /\ pc' = [pc EXCEPT ![c] = "resolved"]
                /\ UNCHANGED <<idx, io, result>>
           ELSE IF LastPath(paths[c], idx[c])
           THEN /\ log' = lg
                /\ Throw(c, NoServerError(url[c]))
                /\ UNCHANGED <<idx, io, workingurl>>
           ELSE /\ log' = lg
                /\ idx' = [idx EXCEPT ![c] = @ + 1]
                /\ io' = Append(io, IoEvent(c, "GET", paths[c][idx[c] + 1], <<>>))
                /\ UNCHANGED <<pc, workingurl, result>>
        /\ UNCHANGED <<operation, ret, url, payload, config, formData, paths, res>>

\* the probe is answered with HTTP status s
ProbeResponds(c, s) ==
    /\ pc[c] = "probing"
    /\ ValidURL(paths[c][idx[c]])
    /\ AfterProbe(c, [status |-> s, text |-> ""], log)

\* variant of ProbeFails: no catch handler, the rejection leaves the loop
ProbeFailsUncaught(c, error) ==
    /\ pc[c] = "probing"
    /\ statuses' = [statuses EXCEPT ![c] = Append(@, NopResponse.status)]
    /\ Throw(c, [tmpl |-> "TypeError", cause |-> CauseOf(error)])
    /\ UNCHANGED <<operation, ret, url, payload, config, formData, paths, idx, workingurl,
                   res, io, log>>

\* variant of ProbeFails: the catch handler answers without logging
ProbeFailsSilent(c, error) ==
    /\ pc[c] = "probing"
    /\ AfterProbe(c, NopResponse, log)

\* the probe's fetch rejects: the catch handler logs and answers for it
ProbeFails(c, error) ==
    /\ pc[c] = "probing"
    /\ AfterProbe(c, NopResponse,
                  Append(log, PingWarning(paths[c][idx[c]], error)))

\* variant of Dispatch: workingurl is a field of the repository, so that the
\* POST goes to the address any call resolved
DispatchShared(c) ==
    /\ pc[c] = "resolved"
    /\ \E d \in CallIds :
          /\ workingurl[d] # <<>>
          /\ io' = Append(io, IoEvent(c, "POST", PredictURL(workingurl[d]), formData[c]))
    /\ pc' = [pc EXCEPT ![c] = "posting"]
    /\ UNCHANGED <<operation, ret, url, payload, config, formData, paths, idx, statuses,
                   workingurl, res, result, log>>

\* predict after `await this.find_working_server`: the POST is sent
Dispatch(c) ==
    /\ pc[c] = "resolved"
    /\ io' = Append(io, IoEvent(c, "POST", PredictURL(workingurl[c]), formData[c]))
    /\ pc' = [pc EXCEPT ![c] = "posting"]
    /\ UNCHANGED <<operation, ret, url, payload, config, formData, paths, idx, statuses,
                   workingurl, res, result, log>>

\* the POST is answered with response r
PostResponds(c, r) ==
    /\ pc[c] = "posting"
    /\ res' = [res EXCEPT ![c] = r]
    /\ IF IsRejected(r)
       THEN /\ Throw(c, RejectedError(config[c], r))
            /\ UNCHANGED io
       ELSE /\ io' = Append(io, IoEvent(c, "json", r.body, <<>>))
            /\ pc' = [pc EXCEPT ![c] = "decoding"]
            /\ UNCHANGED result
    /\ UNCHANGED <<operation, ret, url, payload, config, formData, paths, idx, statuses,
                   workingurl, log>>

\* variant of PostFails: the next candidate is tried when there is one
PostFailsRetry(c, error) ==
    /\ pc[c] = "posting"
    /\ IF LastPath(paths[c], idx[c])
       THEN /\ Throw(c, DispatchError(url[c], workingurl[c], error))
            /\ UNCHANGED <<idx, io>>
       ELSE /\ idx' = [idx EXCEPT ![c] = @ + 1]
            /\ io' = Append(io, IoEvent(c, "GET", paths[c][idx[c] + 1], <<>>))
            /\ pc' = [pc EXCEPT ![c] = "probing"]
            /\ UNCHANGED result
    /\ UNCHANGED <<operation, ret, url, payload, config, formData, paths, statuses,
                   workingurl, res, log>>

\* the POST's fetch rejects: the catch handler throws
PostFails(c, error) ==
    /\ pc[c] = "posting"
    /\ Throw(c, DispatchError(url[c], workingurl[c], error))
    /\ UNCHANGED <<operation, ret, url, payload, config, formData, paths, idx, statuses,
                   workingurl, res, io, log>>

\* res.json() settles
JsonSettles(c) ==
    /\ pc[c] = "decoding"
    /\ LET d == JSONparse(res[c].body)
       IN  IF d.ok
           THEN /\ pc' = [pc EXCEPT ![c] = "returned"]
                /\ result' = [result EXCEPT ![c] = [kind |-> "value", value |-> d.value]]
           ELSE Throw(c, DecodeError)
    /\ UNCHANGED <<operation, ret, url, payload, config, formData, paths, idx, statuses,
                   workingurl, res, io, log>>

\* the operation after `await this.predict`: it returns its projection of
\* the response; a rejection of predict is its own rejection
Project(c) ==
    /\ operation[c] # "predict"
    /\ pc[c] \in {"returned", "thrown"}
    /\ ret[c] = Pending
    /\ ret' = [ret EXCEPT ![c] =
            IF pc[c] = "thrown" THEN result[c]
            ELSE [kind |-> "value", value |->
                    IF operation[c] = "detectFaces"
                    THEN DetectFacesResult(result[c].value)
                    ELSE EncodeResult(result[c].value)]]
    /\ UNCHANGED <<operation, url, payload, config, pc, formData, paths, idx, statuses,
                   workingurl, res, result, io, log>>

\* the steps of call c
Step(c) ==
    \/ GetFormData(c)
    \/ ReadFileDone(c)
    \/ ReadFileFails(c)
    \/ StartScan(c)
    \/ \E s \in ProbeStatuses : ProbeResponds(c, s)
    \/ \E e \in ProbeErrors : ProbeFails(c, e)
    \/ Dispatch(c)
    \/ \E r \in Responses : PostResponds(c, r)
    \/ \E e \in PostErrors : PostFails(c, e)
    \/ JsonSettles(c)
    \/ Project(c)

Next == \E c \in CallIds : Step(c)

Spec == Init /\ [][Next]_vars

\* every file read and every request is settled in the end, and the event
\* loop runs the continuation of every settled await
FairSpec == FairInit /\ [][Next]_vars /\ \A c \in CallIds : WF_vars(Step(c))

\* Two calls on one repository instance, both made before either takes a
\* step; the servers answer from a few of the answers above.
ConcUrls == { <<"a">>, <<"/", ";", "a", "a">> }

ConcInvocations ==
    {i \in Invocations : i.op \in {"detectFaces", "encodeText"} /\ i.config.modelName = "m1"}

ConcProbeStatuses == {s \in ProbeStatuses : s \in {200, 500}}

ConcResponses ==
    {r \in Responses :
        /\ r.statusText = "OK"
        /\ \/ r.status = 200
           \/ r.status = 400 /\ r.body = <<"{">>}

ConcPostErrors == {e \in PostErrors : e.cause # ""}

ConcInit ==
    /\ \E u \in [CallIds -> ConcUrls], i \in [CallIds -> ConcInvocations] :
          /\ url = u
          /\ operation = [c \in CallIds |-> i[c].op]
          /\ payload = [c \in CallIds |-> i[c].payload]
          /\ config = [c \in CallIds |-> i[c].config]
    /\ ret = [c \in CallIds |-> Pending]
    /\ pc = [c \in CallIds |-> "start"]
    /\ formData = [c \in CallIds |-> <<>>]
    /\ paths = [c \in CallIds |-> <<>>]
    /\ idx = [c \in CallIds |-> 0]
    /\ statuses = [c \in CallIds |-> <<>>]
    /\ workingurl = [c \in CallIds |-> <<>>]
    /\ res = [c \in CallIds |-> NoResponse]
    /\ result = [c \in CallIds |-> Pending]
    /\ io = <<>>
    /\ log = <<>>

ConcStep(c) ==
    \/ GetFormData(c)
    \/ ReadFileDone(c)
    \/ ReadFileFails(c)
    \/ StartScan(c)
    \/ \E s \in ConcProbeStatuses : ProbeResponds(c, s)
    \/ \E e \in ProbeErrors : ProbeFails(c, e)
    \/ Dispatch(c)
    \/ \E r \in ConcResponses : PostResponds(c, r)
    \/ \E e \in ConcPostErrors : PostFails(c, e)
    \/ JsonSettles(c)
    \/ Project(c)

ConcNext == \E c \in CallIds : ConcStep(c)

\* any interleaving of the two calls at their awaits
ConcSpec == ConcInit /\ [][ConcNext]_vars

(* ------------------------------------------------------------ properties *)

Failed(c, e) == result[c] = [kind |-> "error", error |-> e]

\* find_working_server of call c has been entered and has left its loop
ScanOver(c) == paths[c] # <<>> /\ pc[c] # "probing"

\* no finished probe of call c was answered 200
NoneWorking(c) == \A k \in 1..Len(statuses[c]) : statuses[c][k] # 200

\* the probes of call c went to the candidates in list order, one each
ProbedInOrder(c) ==
    /\ paths[c] = Paths(url[c])
    /\ Len(statuses[c]) <= Len(paths[c])
    /\ Len(Gets(c)) = Len(statuses[c])
    /\ \A k \in 1..Len(statuses[c]) : Gets(c)[k].target = paths[c][k]

\* C1: when some probe of the scan is answered 200, find_working_server
\* returns the candidate of smallest index whose probe was answered exactly
\* 200, leaving the later candidates unprobed; when none is (failures and
\* other statuses such as 204 or 500 only), no candidate is selected.
C1_FirstWorkingServer ==
    \A c \in CallIds :
        ScanOver(c) =>
            LET n == Len(statuses[c])
            IN  /\ ProbedInOrder(c)
                /\ IF NoneWorking(c)
                   THEN workingurl[c] = <<>> /\ pc[c] \notin {"resolved", "posting", "decoding", "returned"}
                   ELSE /\ statuses[c][n] = 200
                        /\ \A j \in 1..(n - 1) : statuses[c][j] # 200
                        /\ workingurl[c] = paths[c][n]
                        /\ ~Failed(c, NoServerError(url[c]))

\* the second candidate is selected after the first answered 204, a third
\* candidate being left unprobed
C1_Witness ==
    \E c \in CallIds :
        /\ pc[c] = "resolved"
        /\ statuses[c] = <<204, 200>>
        /\ Len(paths[c]) = 3
        /\ workingurl[c] = paths[c][2]

\* C2: when every probe fails or is answered with a status other than 200,
\* find_working_server fails with the no-server error, after one probe of
\* every candidate of the list, and predict fails with it without a POST.
C2_NoAvailableServer ==
    \A c \in CallIds :
        /\ (ScanOver(c) /\ NoneWorking(c)) =>
                /\ pc[c] = "thrown"
                /\ Failed(c, NoServerError(url[c]))
        /\ Failed(c, NoServerError(url[c])) =>
                /\ NoneWorking(c)
                /\ Len(statuses[c]) = Len(Paths(url[c]))
                /\ Len(Gets(c)) = Len(Paths(url[c]))
                /\ \A k \in 1..Len(Paths(url[c])) : Gets(c)[k].target = Paths(url[c])[k]
                /\ Posts(c) = <<>>

\* a list of two candidates, the first failing at transport level and the
\* second answering 500, ends with the no-server error
C2_Witness ==
    \E c \in CallIds :
        /\ Failed(c, NoServerError(url[c]))
        /\ statuses[c] = <<0, 500>>

\* C3: a payload with neither imagePath nor text makes predict fail with
\* 'Invalid input' before any file read, probe or POST of the call.
C3_InvalidInputBeforeNetwork ==
    \A c \in CallIds :
        (DOMAIN payload[c] = {} /\ pc[c] \notin {"idle", "start"}) =>
            /\ pc[c] = "thrown"
            /\ Failed(c, InvalidInputError)
            /\ IoOf(c) = <<>>
            /\ paths[c] = <<>>

\* the call fails with 'Invalid input' although its list holds a candidate
\* that could be probed
C3_Witness ==
    \E c \in CallIds :
        /\ DOMAIN payload[c] = {}
        /\ Failed(c, InvalidInputError)
        /\ \E k \in 1..Len(Paths(url[c])) : ValidURL(Paths(url[c])[k])
        /\ io = <<>>

\* the POST of call c failed at transport level: it was sent, no response
\* came, and the call is over
PostTransportFailed(c) ==
    /\ pc[c] = "thrown"
    /\ Posts(c) # <<>>
    /\ res[c] = NoResponse

\* C4: a transport failure of the POST ends the call with the dispatch
\* error at once; the POST was sent once, it is the call's last request,
\* and no candidate is probed or posted to afterwards.
C4_DispatchFailedNoRetry ==
    /\ [](\A c \in CallIds :
            /\ PostTransportFailed(c) =>
                    /\ \E e \in PostErrors :
                            Failed(c, DispatchError(url[c], workingurl[c], e))
                    /\ Len(Posts(c)) = 1
                    /\ IoOf(c)[Len(IoOf(c))].op = "POST"
                    /\ Len(Gets(c)) = Len(statuses[c])
            /\ Len(Posts(c)) <= 1)
    /\ [][\A c \in CallIds :
            /\ (pc[c] = "posting" /\ pc'[c] # "posting" /\ res'[c] = NoResponse) =>
                    /\ pc'[c] = "thrown"
                    /\ io' = io
            /\ pc[c] = "thrown" => (pc'[c] = "thrown" /\ IoOf(c)' = IoOf(c))]_vars

\* the POST to the first candidate fails while a second candidate, never
\* probed, is in the list
C4_Witness ==
    \E c \in CallIds :
        /\ PostTransportFailed(c)
        /\ statuses[c] = <<200>>
        /\ Len(paths[c]) = 2
        /\ ValidURL(paths[c][2])

\* C5: a response to the POST with status >= 400 makes predict fail with
\* the rejection error holding that response's status and status text and
\* JSON.stringify(config); the body is never decoded.
C5_PredictionRejected ==
    \A c \in CallIds :
        (res[c] # NoResponse /\ res[c].status >= 400) =>
            /\ pc[c] = "thrown"
            /\ result[c].kind = "error"
            /\ result[c].error =
                 [tmpl |-> "${errorPrefix} '${config}' failed with status ${status}: ${statusText}",
                  prefix |-> errorPrefix,
                  config |-> JSONstringify(config[c]),
                  status |-> res[c].status,
                  statusText |-> res[c].statusText]
            /\ \A i \in 1..Len(IoOf(c)) : IoOf(c)[i].op # "json"

\* a response of status exactly 400 whose body would decode is rejected
C5_Witness ==
    \E c \in CallIds :
        /\ pc[c] = "thrown"
        /\ res[c].status = 400
        /\ res[c].statusText = "Bad"
        /\ JSONparse(res[c].body).ok
        /\ config[c].modelName = "m2"

IsRejection(r) ==
    /\ r.kind = "error"
    /\ r.error.tmpl = "${errorPrefix} '${config}' failed with status ${status}: ${statusText}"

\* C6: a response to the POST with a status below 400 is never rejected:
\* its body is decoded and the decoded value returned, or the decoder's
\* error propagates; and predict returns a value only after exactly one
\* POST answered with a status below 400.
C6_DecodedBelow400 ==
    \A c \in CallIds :
        /\ (res[c] # NoResponse /\ res[c].status < 400) =>
                /\ ~IsRejection(result[c])
                /\ pc[c] \in {"decoding", "returned", "thrown"}
                /\ pc[c] = "decoding" => result[c] = Pending
                /\ pc[c] = "returned" =>
                        /\ Len(res[c].body) \in {5, 13}
                        /\ DOMAIN result[c] = {"kind", "value"}
                        /\ result[c].kind = "value"
                        /\ DOMAIN result[c].value =
                             {res[c].body[4 * i - 2] : i \in 1..((Len(res[c].body) - 1) \div 4)}
                        /\ \A i \in 1..((Len(res[c].body) - 1) \div 4) :
                                result[c].value[res[c].body[4 * i - 2]] = res[c].body[4 * i]
                /\ pc[c] = "thrown" =>
                        /\ Failed(c, DecodeError)
                        /\ Len(res[c].body) = 1
        /\ (result[c].kind = "value") =>
                /\ pc[c] = "returned"
                /\ Len(Posts(c)) = 1
                /\ res[c] # NoResponse
                /\ res[c].status < 400

\* a response of status 399 is decoded and its value returned
C6_Witness ==
    \E c \in CallIds :
        /\ pc[c] = "returned"
        /\ res[c].status = 399
        /\ result[c].value = [k \in {"search"} |-> "e1"]

\* the scan of call c ended without a working server
ScanFailed(c) == ScanOver(c) /\ NoneWorking(c) /\ pc[c] = "thrown"

\* C7 as stated: the no-server error names the original delimited string
C7_ErrorNamesList ==
    \A c \in CallIds :
        ScanFailed(c) =>
            /\ result[c].kind = "error"
            /\ "url" \in DOMAIN result[c].error
            /\ result[c].error["url"] = url[c]

\* C7 (amended): the no-server error is one fixed message, the same for
\* every server list: it holds the error prefix and nothing else, neither
\* the original string nor a candidate.
C7_ErrorIsFixedMessage ==
    \A c \in CallIds :
        ScanFailed(c) =>
            Failed(c, [tmpl |-> "${errorPrefix}: no machine learning server found.",
                       prefix |-> "Machine learning request"])

\* the scan of a list of two valid candidates fails
C7_Witness ==
    \E c \in CallIds :
        /\ ScanFailed(c)
        /\ Len(paths[c]) = 2
        /\ ValidURL(paths[c][1]) /\ ValidURL(paths[c][2])
        /\ statuses[c] = <<500, 0>>

\* C8: when the POST fails at transport level, the dispatch error holds
\* workingurl, the one candidate whose probe was answered 200 in this call,
\* and the cause of the failure; it does not hold the server list, from
\* which workingurl differs as soon as the list has more than one candidate.
C8_DispatchFailedNamesResolved ==
    \A c \in CallIds :
        PostTransportFailed(c) =>
            LET n == Len(statuses[c])
                e == result[c].error
            IN  /\ result[c].kind = "error"
                /\ DOMAIN e = {"tmpl", "prefix", "address", "cause"}
                /\ n >= 1 /\ statuses[c][n] = 200
                /\ e.address = Paths(url[c])[n]
                /\ e.cause \in {"ETIMEDOUT", "aborted"}
                /\ Len(Paths(url[c])) > 1 => e.address # url[c]

\* the POST to the second of two candidates fails with an error that has a cause
C8_Witness ==
    \E c \in CallIds :
        /\ PostTransportFailed(c)
        /\ statuses[c] = <<0, 200>>
        /\ result[c].error.address = paths[c][2]
        /\ result[c].error.cause = "ETIMEDOUT"

\* C9: a transport failure of a probe is a finished iteration of status 0,
\* which is no HTTP status; the next candidate, when there is one, is
\* probed; and a call that ends inside find_working_server ends with the
\* no-server error only.
C9_ProbeFailureIsolated ==
    \A c \in CallIds :
        /\ NopResponse.status \notin 100..599
        /\ \A k \in 1..Len(statuses[c]) :
                (statuses[c][k] = 0 /\ k < Len(Paths(url[c]))) =>
                    /\ Len(Gets(c)) >= k + 1
                    /\ Gets(c)[k + 1].target = Paths(url[c])[k + 1]
        /\ (pc[c] = "thrown" /\ Gets(c) # <<>> /\ Posts(c) = <<>>) =>
                Failed(c, NoServerError(url[c]))

\* the first candidate's probe fails, the second answers 200 and the POST
\* goes to the second
C9_Witness ==
    \E c \in CallIds :
        /\ pc[c] = "posting"
        /\ statuses[c] = <<0, 200>>
        /\ Posts(c)[1].target = PredictURL(paths[c][2])
        /\ \E i \in 1..Len(log) : log[i].level = "warn" /\ log[i].path = paths[c][1]

\* <address> without trailing slashes
RECURSIVE StripSlashes(_)
StripSlashes(a) ==
    IF a # <<>> /\ a[Len(a)] = "/" THEN StripSlashes(SubSeq(a, 1, Len(a) - 1)) ELSE a

\* C10: every POST of a call goes to <address>/predict, <address> being
\* the candidate whose probe was answered 200 in that call, whether or not
\* it has a path.
C10_PostToAddressPredict ==
    \A c \in CallIds :
        \A i \in 1..Len(Posts(c)) :
            LET n == Len(statuses[c])
            IN  /\ n >= 1 /\ statuses[c][n] = 200
                /\ Posts(c)[i].target = StripSlashes(Paths(url[c])[n]) \o <<"/predict">>

\* C11: the body of every POST holds two fields: one 'entries' field with
\* JSON.stringify(config), then exactly one of 'image' and 'text', also
\* when the payload has both imagePath and text.
C11_FormDataFields ==
    \A c \in CallIds :
        \A i \in 1..Len(Posts(c)) :
            LET b == Posts(c)[i].body
            IN  /\ Cardinality({j \in 1..Len(b) : b[j].name = "entries"}) = 1
                /\ \A j \in 1..Len(b) :
                        b[j].name = "entries" => b[j].value = JSONstringify(config[c])
                /\ Cardinality({j \in 1..Len(b) : b[j].name = "image"})
                     + Cardinality({j \in 1..Len(b) : b[j].name = "text"}) = 1
                /\ \A j \in 1..Len(b) : b[j].name \in {"entries", "image", "text"}

\* a payload with both keys is posted with the image and without the text
C11_Witness ==
    \E c \in CallIds :
        /\ DOMAIN payload[c] = {"imagePath", "text"}
        /\ Len(Posts(c)) = 1
        /\ Posts(c)[1].body =
             << [name |-> "entries", value |-> JSONstringify(config[c])],
                [name |-> "image", value |-> FileBytes] >>

\* C13: one call of find_working_server is one pass over the list: its
\* k-th probe goes to the k-th candidate, so that no position is probed
\* twice; the scan stops at the candidate it returns, and a failed scan has
\* probed every position once.
C13_SinglePass ==
    \A c \in CallIds :
        paths[c] # <<>> =>
            /\ Len(Gets(c)) <= Len(paths[c])
            /\ \A k \in 1..Len(Gets(c)) : Gets(c)[k].target = paths[c][k]
            /\ (ScanOver(c) /\ ~NoneWorking(c)) =>
                    /\ Len(Gets(c)) = Len(statuses[c])
                    /\ workingurl[c] = paths[c][Len(Gets(c))]
            /\ (ScanOver(c) /\ NoneWorking(c)) => Len(Gets(c)) = Len(paths[c])

\* the first of three candidates is returned: one probe, two candidates
\* never probed
C13_Witness ==
    \E c \in CallIds :
        /\ pc[c] = "resolved"
        /\ Len(paths[c]) = 3
        /\ Len(Gets(c)) = 1
        /\ ValidURL(paths[c][2])

\* C15: the probes of a call are sequential: at most one is in flight, and
\* the probe of candidate k+1 is sent only after the probe of candidate k
\* ended with a transport failure or a status other than 200.
C15_SequentialProbes ==
    \A c \in CallIds :
        LET inflight == Len(Gets(c)) - Len(statuses[c])
        IN  /\ inflight \in {0, 1}
            /\ inflight = 1 <=> pc[c] = "probing"
            /\ \A k \in 1..(Len(Gets(c)) - 1) :
                    k <= Len(statuses[c]) /\ statuses[c][k] # 200

\* the second probe is in flight after the first was answered 500
C15_Witness ==
    \E c \in CallIds :
        /\ pc[c] = "probing"
        /\ statuses[c] = <<500>>
        /\ Len(Gets(c)) = 2
        /\ Len(paths[c]) = 3

\* call c is the only call that has run, so that every log line is its own
OnlyCall(c) == \A d \in CallIds \ {c} : pc[d] = "idle"

\* the lines find_working_server logged, as level and path
ScanLog ==
    LET lines == SelectSeq(log, LAMBDA l : l.tmpl # "Predicting with ${paths}")
    IN  [i \in 1..Len(lines) |-> [level |-> lines[i].level, path |-> lines[i].path]]

\* the lines that go with the finished probes 1..k of call c: a warning for
\* a transport failure, a debug line for a 200, nothing for another status
RECURSIVE ExpectedScanLog(_, _)
ExpectedScanLog(c, k) ==
    IF k = 0 THEN <<>>
    ELSE ExpectedScanLog(c, k - 1) \o
         (IF statuses[c][k] = 0 THEN <<[level |-> "warn", path |-> paths[c][k]]>>
          ELSE IF statuses[c][k] = 200 THEN <<[level |-> "debug", path |-> paths[c][k]]>>
          ELSE <<>>)

\* C17 as stated: after the scan find_working_server has logged one line
\* for every probe it sent
C17_LogPerProbe ==
    \A c \in CallIds :
        (OnlyCall(c) /\ ScanOver(c)) => Len(ScanLog) = Len(Gets(c))

\* C17 (amended): find_working_server logs one debug line for the probe
\* answered 200, one warning for each probe that failed at transport level
\* and nothing for a probe answered with another status, in the order of
\* the probes.
C17_LogPerFailureOrSuccess ==
    \A c \in CallIds :
        (OnlyCall(c) /\ paths[c] # <<>>) =>
            /\ ScanLog = ExpectedScanLog(c, Len(statuses[c]))
            /\ Len(ScanLog) <= Len(Gets(c))

\* two probes, answered 500 and 200, leave the one debug line
C17_Witness ==
    /\ pc[1] = "resolved"
    /\ statuses[1] = <<500, 200>>
    /\ Len(ScanLog) = 1
    /\ ScanLog[1].level = "debug"

\* C19: with an image payload the file is read before the first probe; a
\* failed read ends the call with the read's error, without a probe or a
\* POST, whatever the servers would answer.
C19_FileReadBeforeProbe ==
    \A c \in CallIds :
        ("imagePath" \in DOMAIN payload[c] /\ pc[c] \notin {"idle", "start"}) =>
            /\ IoOf(c)[1].op = "readFile"
            /\ IoOf(c)[1].target = payload[c]["imagePath"]
            /\ pc[c] = "readFile" => Len(IoOf(c)) = 1
            /\ pc[c] # "readFile" =>
                  \/ /\ Failed(c, FileError)
                     /\ Len(IoOf(c)) = 1
                     /\ paths[c] = <<>>
                  \/ /\ \E j \in 1..Len(formData[c]) :
                            formData[c][j] = [name |-> "image", value |-> FileBytes]
                     /\ result[c] # [kind |-> "error", error |-> FileError]

\* the read fails although the list's first candidate could answer
C19_Witness ==
    \E c \in CallIds :
        /\ Failed(c, FileError)
        /\ ValidURL(Paths(url[c])[1])
        /\ Len(io) = 1

\* the errors a call of predict can end with
IsOutcomeError(c, e) ==
    \/ e = InvalidInputError
    \/ e = FileError
    \/ e = NoServerError(url[c])
    \/ \E x \in PostErrors : e = DispatchError(url[c], workingurl[c], x)
    \/ \E r \in Responses : r.status >= 400 /\ e = RejectedError(config[c], r)
    \/ e = DecodeError

\* C18: when every read and request is settled in the end, every call of
\* predict ends, with a decoded value or with one of the six errors; it
\* sends at most one probe per candidate of its list and at most one POST.
C18_Terminates ==
    /\ [](\A c \in CallIds :
            /\ Len(Gets(c)) <= Len(Paths(url[c]))
            /\ Len(Posts(c)) <= 1
            /\ pc[c] = "returned" <=> result[c].kind = "value"
            /\ pc[c] = "thrown" <=> result[c].kind = "error"
            /\ pc[c] \notin {"returned", "thrown"} <=> result[c] = Pending
            /\ result[c].kind = "value" => DOMAIN result[c] = {"kind", "value"}
            /\ result[c].kind = "error" =>
                    /\ DOMAIN result[c] = {"kind", "error"}
                    /\ IsOutcomeError(c, result[c].error))
    /\ \A c \in CallIds :
            (pc[c] # "idle") ~> (pc[c] \in {"returned", "thrown"})

\* a call ends with a value after a probe of each of two candidates and a POST
C18_Witness ==
    \E c \in CallIds :
        /\ pc[c] = "returned"
        /\ Len(Paths(url[c])) = 2
        /\ Len(Gets(c)) = 2
        /\ Len(Posts(c)) = 1

\* C12: an operation returns its projection of the value predict decoded:
\* encodeText and encodeImage the search branch, detectFaces the object
\* {imageHeight, imageWidth, faces} whose faces is the facial-recognition
\* branch and whose dimensions are the response's; the decoded value itself
\* stays as it was, and a failure of predict is the operation's failure.
C12_Projections ==
    \A c \in CallIds :
        ret[c] # Pending =>
            LET response == result[c].value
                branch(k) == IF k \in DOMAIN response THEN response[k] ELSE "undefined"
            IN  /\ operation[c] \in {"detectFaces", "encodeImage", "encodeText"}
                /\ pc[c] \in {"returned", "thrown"}
                /\ pc[c] = "thrown" => ret[c] = result[c]
                /\ pc[c] = "returned" =>
                        /\ DOMAIN ret[c] = {"kind", "value"}
                        /\ ret[c].kind = "value"
                        /\ operation[c] \in {"encodeImage", "encodeText"} =>
                                ret[c].value = branch("search")
                        /\ operation[c] = "detectFaces" =>
                                ret[c].value = [imageHeight |-> branch("imageHeight"),
                                                imageWidth |-> branch("imageWidth"),
                                                faces |-> branch("facial_recognition")]
                        /\ JSONparse(res[c].body).ok
                        /\ response = JSONparse(res[c].body).value

\* detectFaces returns the dimensions 100 and 200 and the faces of the response
C12_Witness ==
    \E c \in CallIds :
        /\ operation[c] = "detectFaces"
        /\ ret[c] = [kind |-> "value",
                     value |-> [imageHeight |-> "100", imageWidth |-> "200", faces |-> "f1"]]
        /\ config[c].minScore = "0.7"

\* the candidate a call resolved: the one its last finished probe went to
Resolved(c) == Paths(url[c])[Len(statuses[c])]

\* the fields getFormData builds from the call's own arguments
OwnFormData(c) ==
    <<[name |-> "entries", value |-> JSONstringify(config[c])]>>
    \o (IF "imagePath" \in DOMAIN payload[c]
        THEN <<[name |-> "image", value |-> FileBytes]>>
        ELSE <<[name |-> "text", value |-> payload[c]["text"]]>>)

\* C14: a call of an operation sends at most one POST, after all of its probes,
\* and only once a probe of its own was answered 200; the POST goes to the
\* address that probe went to, and a value it returns is decoded from the
\* response to its own POST: nothing another call resolved or received
\* stands in for a probe or for the POST.
C14_OneProbeThenDispatch ==
    \A c \in CallIds :
        /\ Len(Posts(c)) <= 1
        /\ \A i, j \in 1..Len(IoOf(c)) :
                IoOf(c)[i].op = "GET" /\ IoOf(c)[j].op = "POST" => i < j
        /\ pc[c] \in {"resolved", "posting", "decoding", "returned"} \/ Posts(c) # <<>> =>
                /\ Len(statuses[c]) >= 1
                /\ Len(Gets(c)) = Len(statuses[c])
                /\ statuses[c][Len(statuses[c])] = 200
                /\ Gets(c)[Len(Gets(c))].target = Resolved(c)
                /\ workingurl[c] = Resolved(c)
        /\ Posts(c) # <<>> => Posts(c)[1].target = PredictURL(Resolved(c))
        /\ pc[c] \in {"decoding", "returned"} =>
                /\ Len(Posts(c)) = 1
                /\ res[c] # NoResponse
                /\ IoOf(c)[Len(IoOf(c))] = IoEvent(c, "json", res[c].body, <<>>)
        /\ pc[c] = "returned" => result[c].value = JSONparse(res[c].body).value

\* the second call ends with a value after the first one did, having sent a
\* probe and a POST of its own to the address the first one had resolved
C14_Witness ==
    /\ url[1] = url[2]
    /\ operation[1] = operation[2]
    /\ ret[1].kind = "value" /\ ret[2].kind = "value"
    /\ Len(io) = 6
    /\ \A k \in 1..3 : io[k].call = 1 /\ io[k + 3].call = 2
    /\ io[4].op = "GET" /\ io[5].op = "POST"
    /\ io[5].target = io[2].target

\* what a finished call settled with, from its own arguments and the answers
\* to its own read, probes and POST
OwnOutcomes(c) ==
    IF ~ HasImagePath(payload[c]) /\ ~ HasText(payload[c])
    THEN {[kind |-> "error", error |-> InvalidInputError]}
    ELSE IF Len(statuses[c]) = 0
    THEN {[kind |-> "error", error |-> FileError]}
    ELSE IF statuses[c][Len(statuses[c])] # 200
    THEN {[kind |-> "error", error |-> NoServerError(url[c])]}
    ELSE IF res[c] = NoResponse
    THEN {[kind |-> "error", error |-> DispatchError(url[c], Resolved(c), x)] :
                x \in PostErrors}
    ELSE IF res[c].status >= 400
    THEN {[kind |-> "error", error |-> RejectedError(config[c], res[c])]}
    ELSE IF JSONparse(res[c].body).ok
    THEN {[kind |-> "value", value |-> JSONparse(res[c].body).value]}
    ELSE {[kind |-> "error", error |-> DecodeError]}

\* C16: whatever the interleaving of two calls, each call probes the
\* candidates of its own list, sends its own form to the address its own
\* probe found, and settles with what its own arguments and the answers to
\* its own requests give, as it does when it runs alone.
C16_CallsIndependent ==
    \A c \in CallIds :
        /\ \A k \in 1..Len(Gets(c)) : Gets(c)[k].target = Paths(url[c])[k]
        /\ Len(statuses[c]) <= Len(Gets(c))
        /\ \A k \in 1..(Len(statuses[c]) - 1) : statuses[c][k] # 200
        /\ \A k \in 1..Len(Posts(c)) :
                /\ Posts(c)[k].target = PredictURL(Resolved(c))
                /\ Posts(c)[k].body = OwnFormData(c)
        /\ pc[c] \in {"returned", "thrown"} => result[c] \in OwnOutcomes(c)
        /\ pc[c] \notin {"returned", "thrown"} => result[c] = Pending

\* the two calls run interleaved, each resolves another address, and each
\* has sent its POST to its own
C16_Witness ==
    /\ Len(Posts(1)) = 1 /\ Len(Posts(2)) = 1
    /\ Posts(1)[1].target # Posts(2)[1].target
    /\ operation[1] # operation[2]
    /\ \E i, j, k \in 1..Len(io) :
            /\ i < j /\ j < k
            /\ io[i].call = io[k].call
            /\ io[j].call # io[i].call
    /\ pc[1] = "returned" /\ pc[2] = "thrown"

====
